---- MODULE Spec2Model ----
(***************************************************************************)
(* A model of api/ocr.js: the request handler (module.exports), the        *)
(* multipart decoder (parseFormData), the engine parameter table           *)
(* (getWorkerConfig) and the text post-processing (postProcessText,        *)
(* applyLatvianCorrections).                                               *)
(*                                                                         *)
(* Text is a sequence of one-character strings, so that split, includes,   *)
(* match, replace and trim are computed character by character.  A         *)
(* character outside ASCII is written by an ASCII name ("l-cedilla").      *)
(* The request body `data` is read as the text of the body: the decoder    *)
(* applies the String methods split, includes and match to it.             *)
(***************************************************************************)
EXTENDS Integers, Sequences, FiniteSets, TLC

VARIABLES
    method,         \* req.method
    contentType,    \* req.headers['content-type'], or Undefined
    sent,           \* the parts the client encoded into the body (ghost)
    pending,        \* body text not yet delivered by 'data' events
    chunks,         \* parseFormData: chunks
    promise,        \* parseFormData: the returned promise
    pc,             \* module.exports: the await the handler is suspended at
    language,       \* module.exports: language
    mode,           \* module.exports: mode
    workerConfig,   \* module.exports: workerConfig
    worker,         \* module.exports: worker ("none" until createWorker resolves)
    terminateCalls, \* number of calls of worker.terminate()
    thrown,         \* an exception is propagating through the finally block
    responses,      \* the responses emitted through res (status, body)
    text,           \* the raw text (result of worker.recognize)
    processed       \* the outputs of successive postProcessText passes

vars == <<method, contentType, sent, pending, chunks, promise, pc, language,
          mode, workerConfig, worker, terminateCalls, thrown, responses,
          text, processed>>

(***************************************************************************)
(* Bounds of the model.                                                    *)
(***************************************************************************)
MaxParts == 2
MaxTextLen == 3

(***************************************************************************)
(* JavaScript values.                                                      *)
(***************************************************************************)
Undefined == <<"undefined">>
EmptyString == << >>
EmptyObject == << >>

Truthy(v) == v # Undefined /\ v # EmptyString

Put(obj, key, value) ==
    [k \in (DOMAIN obj) \cup {key} |-> IF k = key THEN value ELSE obj[k]]

RECURSIVE Concat(_)
Concat(list) ==
    IF list = << >> THEN << >> ELSE Head(list) \o Concat(Tail(list))

(***************************************************************************)
(* String methods.                                                         *)
(***************************************************************************)
StartsAt(s, pat, i) ==
    /\ i + Len(pat) - 1 <= Len(s)
    /\ \A k \in 1..Len(pat) : s[i + k - 1] = pat[k]

\* String.prototype.indexOf, 1-based; 0 when pat does not occur at or after from
IndexOf(s, pat, from) ==
    LET hits == {i \in from..(Len(s) - Len(pat) + 1) : StartsAt(s, pat, i)} IN
    IF hits = {} THEN 0 ELSE CHOOSE i \in hits : \A j \in hits : i <= j

Includes(s, pat) == IndexOf(s, pat, 1) # 0

\* String.prototype.split with a non-empty string separator
RECURSIVE Split(_, _)
Split(s, sep) ==
    LET i == IndexOf(s, sep, 1) IN
    IF i = 0 THEN <<s>>
    ELSE <<SubSeq(s, 1, i - 1)>> \o Split(SubSeq(s, i + Len(sep), Len(s)), sep)

\* the characters String.prototype.trim removes that a body or a text carries
WhiteSpace == {" ", "\t", "\n", "\r", "\f"}

RECURSIVE TrimStart(_)
TrimStart(s) ==
    IF s # << >> /\ Head(s) \in WhiteSpace THEN TrimStart(Tail(s)) ELSE s

RECURSIVE TrimEnd(_)
TrimEnd(s) ==
    IF s # << >> /\ s[Len(s)] \in WhiteSpace
    THEN TrimEnd(SubSeq(s, 1, Len(s) - 1)) ELSE s

Trim(s) == TrimEnd(TrimStart(s))

\* the length of the longest run of characters outside stop that starts at i
RunLength(s, i, stop) ==
    LET stops == {j \in i..Len(s) : s[j] \in stop} IN
    IF stops = {} THEN Len(s) - i + 1
    ELSE (CHOOSE j \in stops : \A k \in stops : j <= k) - i

\* part.match(/<attr>([^"]+)"/): the first capture, or Undefined without a match
RECURSIVE MatchQuoted(_, _, _)
MatchQuoted(s, attr, from) ==
    LET i == IndexOf(s, attr, from) IN
    IF i = 0 THEN Undefined
    ELSE LET start == i + Len(attr)
             n == RunLength(s, start, {"\""})
         IN  IF n >= 1 /\ start + n <= Len(s)
             THEN SubSeq(s, start, start + n - 1)
             ELSE MatchQuoted(s, attr, i + 1)

\* part.match(/<header>([^\r\n]+)/): the first capture, or Undefined
RECURSIVE MatchLine(_, _, _)
MatchLine(s, header, from) ==
    LET i == IndexOf(s, header, from) IN
    IF i = 0 THEN Undefined
    ELSE LET start == i + Len(header)
             n == RunLength(s, start, {"\r", "\n"})
         IN  IF n >= 1
             THEN SubSeq(s, start, start + n - 1)
             ELSE MatchLine(s, header, i + 1)

(***************************************************************************)
(* Literal text of the source and of the requests.                         *)
(***************************************************************************)
CONTENT_DISPOSITION == <<"C", "o", "n", "t", "e", "n", "t", "-", "D", "i", "s", "p", "o", "s", "i", "t", "i", "o", "n">>
NAME_ATTR == <<"n", "a", "m", "e", "=", "\"">>
FILENAME_ATTR == <<"f", "i", "l", "e", "n", "a", "m", "e", "=", "\"">>
CONTENT_TYPE_HDR == <<"C", "o", "n", "t", "e", "n", "t", "-", "T", "y", "p", "e", ":", " ">>
BLANK_LINE == <<"\r", "\n", "\r", "\n">>
BOUNDARY_PARAM == <<"b", "o", "u", "n", "d", "a", "r", "y", "=">>
DASHES == <<"-", "-">>
UNKNOWN == <<"u", "n", "k", "n", "o", "w", "n">>
OCTET_STREAM == <<"a", "p", "p", "l", "i", "c", "a", "t", "i", "o", "n", "/", "o", "c", "t", "e", "t", "-", "s", "t", "r", "e", "a", "m">>
NO_BOUNDARY_FOUND == "No boundary found"

CRLF == <<"\r", "\n">>
QUOTE == <<"\"">>
SEMICOLON == <<";", " ">>
FORM_DATA == <<":", " ", "f", "o", "r", "m", "-", "d", "a", "t", "a">>
MULTIPART == <<"m", "u", "l", "t", "i", "p", "a", "r", "t", "/", "f", "o", "r", "m", "-", "d", "a", "t", "a">>
XYZ == <<"X", "Y", "Z">>
IMAGE == <<"i", "m", "a", "g", "e">>
LANGUAGE == <<"l", "a", "n", "g", "u", "a", "g", "e">>
MODE == <<"m", "o", "d", "e">>
SCAN_PNG == <<"s", "c", "a", "n", ".", "p", "n", "g">>
IMAGE_PNG == <<"i", "m", "a", "g", "e", "/", "p", "n", "g">>
ENG == <<"e", "n", "g">>
LAV == <<"l", "a", "v">>
RUS == <<"r", "u", "s">>
FAST == <<"f", "a", "s", "t">>
ADVANCED == <<"a", "d", "v", "a", "n", "c", "e", "d">>
HANDWRITING == <<"h", "a", "n", "d", "w", "r", "i", "t", "i", "n", "g">>
TURBO == <<"t", "u", "r", "b", "o">>

(***************************************************************************)
(* parseFormData: the 'end' callback.                                      *)
(***************************************************************************)
\* req.headers['content-type']?.split('boundary=')[1]
Boundary(ct) ==
    IF ct = Undefined THEN Undefined
    ELSE LET pieces == Split(ct, BOUNDARY_PARAM) IN
         IF Len(pieces) >= 2 THEN pieces[2] ELSE Undefined

\* Buffer.from(string) of ASCII text: one byte per character
BufferFrom(s) == [i \in 1..Len(s) |-> s[i]]

\* the body of the loop over parts
ParsePart(part, form) ==
    IF ~Includes(part, CONTENT_DISPOSITION) THEN form
    ELSE
      LET nameMatch == MatchQuoted(part, NAME_ATTR, 1) IN
      IF nameMatch = Undefined THEN form
      ELSE
        LET name == nameMatch
            pieces == Split(part, BLANK_LINE)
            value == IF Len(pieces) >= 2 THEN pieces[2] ELSE Undefined
        IN
        IF Includes(part, FILENAME_ATTR)
        THEN
          LET filenameMatch == MatchQuoted(part, FILENAME_ATTR, 1)
              contentTypeMatch == MatchLine(part, CONTENT_TYPE_HDR, 1)
          IN  [form EXCEPT !.files = Put(@, name,
                 [filename |-> IF filenameMatch # Undefined
                               THEN filenameMatch ELSE UNKNOWN,
                  type     |-> IF contentTypeMatch # Undefined
                               THEN contentTypeMatch ELSE OCTET_STREAM,
                  buffer   |-> BufferFrom(IF value # Undefined /\ Truthy(Trim(value))
                                          THEN Trim(value) ELSE EmptyString)])]
        ELSE
          [form EXCEPT !.fields = Put(@, name,
                 IF value # Undefined THEN Trim(value) ELSE Undefined)]

RECURSIVE ParseParts(_, _)
ParseParts(parts, form) ==
    IF parts = << >> THEN form
    ELSE ParseParts(Tail(parts), ParsePart(Head(parts), form))

Pending == [state |-> "pending", reason |-> "", value |-> << >>]
Rejected(reason) == [state |-> "rejected", reason |-> reason, value |-> << >>]
Resolved(value) == [state |-> "resolved", reason |-> "", value |-> <<value>>]

\* the same callback without the check of the boundary
ParseEndUnchecked(data, ct) ==
    Resolved(ParseParts(Split(data, DASHES \o Boundary(ct)),
                        [fields |-> EmptyObject, files |-> EmptyObject]))

\* what the 'end' callback settles the promise with
ParseEnd(data, ct) ==
    LET boundary == Boundary(ct) IN
    IF ~Truthy(boundary) THEN Rejected(NO_BOUNDARY_FOUND)
    ELSE Resolved(ParseParts(Split(data, DASHES \o boundary),
                             [fields |-> EmptyObject, files |-> EmptyObject]))

(***************************************************************************)
(* The requests: the bodies a client encodes and the content-type headers. *)
(***************************************************************************)
Part(name, filename, type, value) ==
    [name |-> name, filename |-> filename, type |-> type, value |-> value]

PartShapes == {
    Part(LANGUAGE, Undefined, Undefined, LAV),
    Part(MODE, Undefined, Undefined, HANDWRITING),
    Part(IMAGE, SCAN_PNG, IMAGE_PNG, <<"x", "y">>),
    Part(IMAGE, Undefined, Undefined, <<" ", "x">>),
    Part(LANGUAGE, Undefined, Undefined, <<"a">> \o BLANK_LINE \o <<"b">>),
    Part(MODE, Undefined, Undefined, EmptyString),
    Part(Undefined, SCAN_PNG, Undefined, <<"x">>),
    Part(EmptyString, SCAN_PNG, IMAGE_PNG, <<"x">>) }

HandlerShapes == {
    Part(LANGUAGE, Undefined, Undefined, LAV),
    Part(MODE, Undefined, Undefined, HANDWRITING),
    Part(IMAGE, SCAN_PNG, IMAGE_PNG, <<"x", "y">>) }

RenderPart(p) ==
    DASHES \o XYZ \o CRLF \o CONTENT_DISPOSITION \o FORM_DATA
    \o (IF p.name # Undefined
        THEN SEMICOLON \o NAME_ATTR \o p.name \o QUOTE ELSE << >>)
    \o (IF p.filename # Undefined
        THEN SEMICOLON \o FILENAME_ATTR \o p.filename \o QUOTE ELSE << >>)
    \o (IF p.type # Undefined
        THEN CRLF \o CONTENT_TYPE_HDR \o p.type ELSE << >>)
    \o BLANK_LINE \o p.value \o CRLF

RECURSIVE RenderParts(_)
RenderParts(parts) ==
    IF parts = << >> THEN << >>
    ELSE RenderPart(Head(parts)) \o RenderParts(Tail(parts))

Render(parts) == RenderParts(parts) \o DASHES \o XYZ \o DASHES \o CRLF

SeqsUpTo(S, n) == UNION {[1..k -> S] : k \in 0..n}

ContentTypes == {
    Undefined,
    MULTIPART,
    MULTIPART \o SEMICOLON \o BOUNDARY_PARAM,
    MULTIPART \o SEMICOLON \o BOUNDARY_PARAM \o XYZ }

\* the sizes of the chunks the 'data' events deliver
ChunkSizes == {64, 4096}

Min(a, b) == IF a < b THEN a ELSE b

(***************************************************************************)
(* parseFormData: the promise and the listeners of the request stream.     *)
(***************************************************************************)
HandlerIdle ==
    /\ language = Undefined
    /\ mode = Undefined
    /\ workerConfig = EmptyObject
    /\ worker = "none"
    /\ terminateCalls = 0
    /\ thrown = FALSE
    /\ responses = << >>
    /\ text = Undefined
    /\ processed = << >>

\* parseFormData(req) has been called with a request the client has encoded
InitDecode ==
    /\ method = "POST"
    /\ contentType \in ContentTypes
    /\ sent \in SeqsUpTo(PartShapes, MaxParts)
    /\ pending = Render(sent)
    /\ chunks = << >>
    /\ promise = Pending
    /\ pc = "parseFormData"
    /\ HandlerIdle

\* req.on('data', chunk => chunks.push(chunk))
OnData ==
    /\ pc = "parseFormData"
    /\ promise.state = "pending"
    /\ pending # << >>
    /\ \E size \in ChunkSizes :
         LET n == Min(size, Len(pending)) IN
         /\ chunks' = Append(chunks, SubSeq(pending, 1, n))
         /\ pending' = SubSeq(pending, n + 1, Len(pending))
    /\ UNCHANGED <<method, contentType, sent, promise, pc, language, mode,
                   workerConfig, worker, terminateCalls, thrown, responses,
                   text, processed>>

\* req.on('end', ...)
OnEnd ==
    /\ pc = "parseFormData"
    /\ promise.state = "pending"
    /\ pending = << >>
    /\ promise' = ParseEnd(Concat(chunks), contentType)
    /\ UNCHANGED <<method, contentType, sent, pending, chunks, pc, language,
                   mode, workerConfig, worker, terminateCalls, thrown,
                   responses, text, processed>>

\* req.on('error', reject)
OnError ==
    /\ pc = "parseFormData"
    /\ promise.state = "pending"
    /\ promise' = Rejected("stream error")
    /\ UNCHANGED <<method, contentType, sent, pending, chunks, pc, language,
                   mode, workerConfig, worker, terminateCalls, thrown,
                   responses, text, processed>>

NextDecode == OnData \/ OnEnd \/ OnError

SpecDecode == InitDecode /\ [][NextDecode]_vars

(***************************************************************************)
(* getWorkerConfig.                                                        *)
(***************************************************************************)
HANDWRITING_WHITELIST == "ABCDEFGHIJKLMNOPQRSTUVWXYZabcdefghijklmnopqrstuvwxyz0123456789 .,!?'\"-"
LATVIAN_WHITELIST == "ABCDEFGHIJKLMNOPQRSTUVWXYZabcdefghijklmnopqrstuvwxyz\\u0100\\u0101\\u010c\\u010d\\u0112\\u0113\\u0122\\u0123\\u012a\\u012b\\u0136\\u0137\\u013b\\u013c\\u0145\\u0146\\u0160\\u0161\\u016a\\u016b\\u017d\\u017e0123456789 .,!?'\"-"
RUSSIAN_WHITELIST == "\\u0410\\u0411\\u0412\\u0413\\u0414\\u0415\\u0401\\u0416\\u0417\\u0418\\u0419\\u041a\\u041b\\u041c\\u041d\\u041e\\u041f\\u0420\\u0421\\u0422\\u0423\\u0424\\u0425\\u0426\\u0427\\u0428\\u0429\\u042a\\u042b\\u042c\\u042d\\u042e\\u042f\\u0430\\u0431\\u0432\\u0433\\u0434\\u0435\\u0451\\u0436\\u0437\\u0438\\u0439\\u043a\\u043b\\u043c\\u043d\\u043e\\u043f\\u0440\\u0441\\u0442\\u0443\\u0444\\u0445\\u0446\\u0447\\u0448\\u0449\\u044a\\u044b\\u044c\\u044d\\u044e\\u044f0123456789 .,!?'\"-"

baseConfig ==
    [tessedit_pageseg_mode |-> "6",
     tessedit_ocr_engine_mode |-> "1",
     preserve_interword_spaces |-> "1",
     tessedit_create_hocr |-> "0",
     tessedit_create_tsv |-> "0",
     tessedit_create_boxfile |-> "0"]

modeConfigs ==
    (FAST :> [tessedit_pageseg_mode |-> "6",
              tessedit_ocr_engine_mode |-> "1"])
    @@ (ADVANCED :> [tessedit_pageseg_mode |-> "3",
                     tessedit_ocr_engine_mode |-> "1",
                     textord_min_linesize |-> "2.5",
                     textord_old_baselines |-> "0"])
    @@ (HANDWRITING :> [tessedit_pageseg_mode |-> "6",
                        tessedit_ocr_engine_mode |-> "1",
                        textord_min_linesize |-> "2.0",
                        tessedit_char_whitelist |-> HANDWRITING_WHITELIST])

languageConfigs ==
    (LAV :> [tessedit_char_whitelist |-> LATVIAN_WHITELIST])
    @@ (RUS :> [tessedit_char_whitelist |-> RUSSIAN_WHITELIST])

\* { ...a, ...table[key] }: a key the table lacks yields undefined, and
\* spreading undefined adds no property
Spread(a, table, key) ==
    IF key \notin DOMAIN table THEN a
    ELSE LET b == table[key] IN
         [k \in (DOMAIN a) \cup (DOMAIN b) |->
            IF k \in DOMAIN b THEN b[k] ELSE a[k]]

\* the same with the mode layer spread last
getWorkerConfigModeLast(m, l) ==
    Spread(Spread(baseConfig, languageConfigs, l), modeConfigs, m)

getWorkerConfig(m, l) ==
    Spread(Spread(baseConfig, modeConfigs, m), languageConfigs, l)

(***************************************************************************)
(* postProcessText and applyLatvianCorrections.                            *)
(***************************************************************************)
A_MACRON == "\\u0101"
C_CARON == "\\u010d"
E_MACRON == "\\u0113"
G_CEDILLA == "\\u0123"
I_MACRON == "\\u012b"
K_CEDILLA == "\\u0137"
L_CEDILLA == "\\u013c"
N_CEDILLA == "\\u0146"
S_CARON == "\\u0161"
U_MACRON == "\\u016b"
Z_CARON == "\\u017e"

corrections ==
    (A_MACRON :> "a") @@ (C_CARON :> "c") @@ (E_MACRON :> "e")
    @@ (G_CEDILLA :> "g") @@ (I_MACRON :> "i") @@ (K_CEDILLA :> "k")
    @@ (L_CEDILLA :> "l") @@ (N_CEDILLA :> "n") @@ (S_CARON :> "s")
    @@ (U_MACRON :> "u") @@ (Z_CARON :> "z")

\* text.split('').map(char => corrections[char] || char).join('')
applyLatvianCorrections(s) ==
    [i \in 1..Len(s) |->
        IF s[i] \in DOMAIN corrections THEN corrections[s[i]] ELSE s[i]]

\* the number of consecutive newlines that start at i
RECURSIVE NewlineRun(_, _)
NewlineRun(s, i) ==
    IF i > Len(s) \/ s[i] # "\n" THEN 0 ELSE 1 + NewlineRun(s, i + 1)

\* replace(/\n{3,}/g, '\n\n')
RECURSIVE CollapseNewlines(_)
CollapseNewlines(s) ==
    IF s = << >> THEN << >>
    ELSE LET k == NewlineRun(s, 1) IN
         IF k = 0 THEN <<Head(s)>> \o CollapseNewlines(Tail(s))
         ELSE (IF k >= 3 THEN <<"\n", "\n">> ELSE SubSeq(s, 1, k))
              \o CollapseNewlines(SubSeq(s, k + 1, Len(s)))

\* replace(/[lI]/g, 'I')
FixConfusedI(s) ==
    [i \in 1..Len(s) |-> IF s[i] \in {"l", "I"} THEN "I" ELSE s[i]]

\* replace(/<pat>/g, rep) for a literal pat
RECURSIVE ReplaceAll(_, _, _)
ReplaceAll(s, pat, rep) ==
    LET i == IndexOf(s, pat, 1) IN
    IF i = 0 THEN s
    ELSE SubSeq(s, 1, i - 1) \o rep
         \o ReplaceAll(SubSeq(s, i + Len(pat), Len(s)), pat, rep)

\* the same with the Latvian table applied whatever the language
postProcessTextAnyLanguage(t, lang) ==
    Trim(applyLatvianCorrections(
        ReplaceAll(ReplaceAll(FixConfusedI(CollapseNewlines(t)),
                              <<"r", "n">>, <<"m">>),
                   <<"c", "l">>, <<"d">>)))

postProcessText(t, lang) ==
    LET collapsed == CollapseNewlines(t)
        fixedI == FixConfusedI(collapsed)
        fixedM == ReplaceAll(fixedI, <<"r", "n">>, <<"m">>)
        fixedD == ReplaceAll(fixedM, <<"c", "l">>, <<"d">>)
        corrected == IF lang = LAV THEN applyLatvianCorrections(fixedD)
                     ELSE fixedD
    IN  Trim(corrected)

(***************************************************************************)
(* The recognition pipeline on its own: getWorkerConfig for a mode and a   *)
(* language, then postProcessText on a raw text, applied twice.            *)
(***************************************************************************)
Modes == {FAST, ADVANCED, HANDWRITING, TURBO}
Languages == {ENG, LAV, RUS}
TextAlphabet == {"l", "r", "n", "c", "\n", " ", L_CEDILLA, N_CEDILLA}

InitPipeline ==
    /\ method = "POST"
    /\ contentType = Undefined
    /\ sent = << >>
    /\ pending = << >>
    /\ chunks = << >>
    /\ promise = Pending
    /\ pc = "getWorkerConfig"
    /\ language \in Languages
    /\ mode \in Modes
    /\ workerConfig = EmptyObject
    /\ worker = "none"
    /\ terminateCalls = 0
    /\ thrown = FALSE
    /\ responses = << >>
    /\ text \in SeqsUpTo(TextAlphabet, MaxTextLen)
    /\ processed = << >>

Configure ==
    /\ pc = "getWorkerConfig"
    /\ workerConfig' = getWorkerConfig(mode, language)
    /\ pc' = "postProcessText"
    /\ UNCHANGED <<method, contentType, sent, pending, chunks, promise,
                   language, mode, worker, terminateCalls, thrown, responses,
                   text, processed>>

PostProcess ==
    /\ pc = "postProcessText"
    /\ Len(processed) < 2
    /\ processed' = Append(processed,
          postProcessText(IF processed = << >> THEN text
                          ELSE processed[Len(processed)], language))
    /\ UNCHANGED <<method, contentType, sent, pending, chunks, promise, pc,
                   language, mode, workerConfig, worker, terminateCalls,
                   thrown, responses, text>>

NextPipeline == Configure \/ PostProcess

SpecPipeline == InitPipeline /\ [][NextPipeline]_vars

(***************************************************************************)
(* module.exports: the request handler.  pc names the await the handler is *)
(* suspended at; an action is the code that runs when that await settles,  *)
(* up to the next await or the return.                                     *)
(***************************************************************************)
Methods == {"OPTIONS", "GET", "POST"}

\* the texts worker.recognize returns
RecognizedTexts == {<<"c", "l", "\n">>, <<"r", "n">>}

Response(status, error, body) ==
    [status |-> status, error |-> error, text |-> body]

MethodNotAllowed == Response(405, "Method not allowed", << >>)
NoImageProvided == Response(400, "No image provided", << >>)
ProcessingFailed == Response(500, "OCR processing failed", << >>)

\* fields[name] || fallback
FieldOr(fields, name, fallback) ==
    IF name \in DOMAIN fields /\ Truthy(fields[name])
    THEN fields[name] ELSE fallback

Init ==
    /\ method \in Methods
    /\ contentType \in ContentTypes
    /\ sent \in SeqsUpTo(HandlerShapes, MaxParts)
    /\ pending = Render(sent)
    /\ chunks = << >>
    /\ promise = Pending
    /\ pc = "start"
    /\ HandlerIdle

\* the handler up to its first await
Entry ==
    /\ pc = "start"
    /\ \/ /\ method = "OPTIONS"
          /\ responses' = Append(responses, Response(200, "", << >>))
          /\ pc' = "done"
       \/ /\ method \notin {"OPTIONS", "POST"}
          /\ responses' = Append(responses, MethodNotAllowed)
          /\ pc' = "done"
       \/ /\ method = "POST"
          /\ responses' = responses
          /\ pc' = "parseFormData"
    /\ UNCHANGED <<method, contentType, sent, pending, chunks, promise,
                   language, mode, workerConfig, worker, terminateCalls,
                   thrown, text, processed>>

\* await parseFormData(req) settles
ParseSettled ==
    /\ pc = "parseFormData"
    /\ promise.state # "pending"
    /\ \/ /\ promise.state = "rejected"
          /\ responses' = Append(responses, ProcessingFailed)
          /\ pc' = "done"
          /\ UNCHANGED <<language, mode>>
       \/ /\ promise.state = "resolved"
          /\ LET formData == promise.value[1] IN
             /\ language' = FieldOr(formData.fields, LANGUAGE, ENG)
             /\ mode' = FieldOr(formData.fields, MODE, FAST)
             /\ IF IMAGE \notin DOMAIN formData.files
                THEN /\ responses' = Append(responses, NoImageProvided)
                     /\ pc' = "done"
                ELSE /\ responses' = responses
                     /\ pc' = "preprocessImage"
    /\ UNCHANGED <<method, contentType, sent, pending, chunks, promise,
                   workerConfig, worker, terminateCalls, thrown, text,
                   processed>>

\* await preprocessImage(...) resolves; getWorkerConfig; createWorker() is called
PreprocessSettled ==
    /\ pc = "preprocessImage"
    /\ workerConfig' = getWorkerConfig(mode, language)
    /\ pc' = "createWorker"
    /\ UNCHANGED <<method, contentType, sent, pending, chunks, promise,
                   language, mode, worker, terminateCalls, thrown, responses,
                   text, processed>>

\* await createWorker() settles
CreateWorkerSettled ==
    /\ pc = "createWorker"
    /\ \E ok \in BOOLEAN :
         IF ok
         THEN /\ worker' = "created"
              /\ pc' = "loadLanguage"
              /\ responses' = responses
         ELSE /\ worker' = worker
              /\ pc' = "done"
              /\ responses' = Append(responses, ProcessingFailed)
    /\ UNCHANGED <<method, contentType, sent, pending, chunks, promise,
                   language, mode, workerConfig, terminateCalls, thrown,
                   text, processed>>

\* leaving the inner try with the error only: the worker is not terminated
EnterFinallyOnSuccessOnly(err, emitted) ==
    IF err
    THEN /\ responses' = Append(emitted, ProcessingFailed)
         /\ pc' = "done"
         /\ thrown' = TRUE
         /\ terminateCalls' = terminateCalls
    ELSE /\ responses' = emitted
         /\ pc' = "terminate"
         /\ thrown' = FALSE
         /\ terminateCalls' = terminateCalls + 1

\* finally { await worker.terminate() }: the inner try is left, normally or
\* by an exception, and worker.terminate() is called
EnterFinally(err, emitted) ==
    /\ responses' = emitted
    /\ pc' = "terminate"
    /\ thrown' = err
    /\ terminateCalls' = terminateCalls + 1

\* an await of the inner try before recognize settles
WorkerStep(at, next) ==
    /\ pc = at
    /\ \E ok \in BOOLEAN :
         IF ok
         THEN /\ pc' = next
              /\ UNCHANGED <<responses, thrown, terminateCalls>>
         ELSE EnterFinally(TRUE, responses)
    /\ UNCHANGED <<method, contentType, sent, pending, chunks, promise,
                   language, mode, workerConfig, worker, text, processed>>

LoadLanguageSettled == WorkerStep("loadLanguage", "initialize")
InitializeSettled == WorkerStep("initialize", "setParameters")
SetParametersSettled == WorkerStep("setParameters", "recognize")

\* await worker.recognize(...) settles; postProcessText; res.json.
\* First disjunct: recognize rejects, or postProcessText throws on a result
\* without text.  Second: the text is post-processed and res.json either
\* emits the response or throws before it emits.
RecognizeSettled ==
    /\ pc = "recognize"
    /\ \/ /\ EnterFinally(TRUE, responses)
          /\ UNCHANGED <<text, processed>>
       \/ \E t \in RecognizedTexts, emit \in BOOLEAN :
            /\ text' = t
            /\ processed' = <<postProcessText(t, language)>>
            /\ IF emit
               THEN EnterFinally(FALSE,
                        Append(responses, Response(200, "", processed'[1])))
               ELSE EnterFinally(TRUE, responses)
    /\ UNCHANGED <<method, contentType, sent, pending, chunks, promise,
                   language, mode, workerConfig, worker>>

\* await worker.terminate() settles; the outer catch
TerminateSettled ==
    /\ pc = "terminate"
    /\ \E ok \in BOOLEAN :
         /\ thrown' = (thrown \/ ~ok)
         /\ responses' = IF thrown' THEN Append(responses, ProcessingFailed)
                         ELSE responses
    /\ pc' = "done"
    /\ UNCHANGED <<method, contentType, sent, pending, chunks, promise,
                   language, mode, workerConfig, worker, terminateCalls,
                   text, processed>>

Next ==
    \/ Entry
    \/ OnData
    \/ OnEnd
    \/ OnError
    \/ ParseSettled
    \/ PreprocessSettled
    \/ CreateWorkerSettled
    \/ LoadLanguageSettled
    \/ InitializeSettled
    \/ SetParametersSettled
    \/ RecognizeSettled
    \/ TerminateSettled

Spec == Init /\ [][Next]_vars

(***************************************************************************)
(* Properties.                                                             *)
(***************************************************************************)
NoBoundaryTypes ==
    {Undefined, MULTIPART, MULTIPART \o SEMICOLON \o BOUNDARY_PARAM}

BoundaryXYZ == MULTIPART \o SEMICOLON \o BOUNDARY_PARAM \o XYZ

Named(p) == p.name # Undefined /\ p.name # EmptyString

Keys(form) == (DOMAIN form.fields) \cup (DOMAIN form.files)

\* C1: when the content-type header carries no boundary token, the promise of
\* parseFormData is never resolved and carries no ParsedForm, whatever the
\* body and however it was chunked; once settled it is rejected, by the 'end'
\* callback with "No boundary found" (or by the stream's own error).
C1_NoBoundaryRejected ==
    contentType \in NoBoundaryTypes =>
        /\ promise.state # "resolved"
        /\ promise.value = << >>
        /\ promise.state = "rejected" =>
               promise.reason \in {NO_BOUNDARY_FOUND, "stream error"}
        /\ (promise.state = "pending") = (promise.reason = "")

\* C1 witness: a body with parts, delivered in several chunks under a
\* content-type without boundary, has been rejected by the 'end' callback.
C1_Witness ==
    /\ contentType = MULTIPART
    /\ sent # << >>
    /\ Len(chunks) >= 2
    /\ promise = Rejected(NO_BOUNDARY_FOUND)

\* C2: for a body with a boundary whose parts all carry a name, the parse
\* succeeds, fields and files together hold one entry per part, and each
\* entry is exactly the value the client put between the blank line and the
\* closing delimiter.
C2_ExactParts ==
    (/\ contentType = BoundaryXYZ
     /\ \A i \in 1..Len(sent) : Named(sent[i])
     /\ promise.state # "pending"
     /\ promise.reason # "stream error") =>
        /\ promise.state = "resolved"
        /\ LET form == promise.value[1] IN
           /\ Cardinality(DOMAIN form.fields) + Cardinality(DOMAIN form.files)
                = Len(sent)
           /\ \A i \in 1..Len(sent) :
                LET p == sent[i] IN
                IF p.filename # Undefined
                THEN /\ p.name \in DOMAIN form.files
                     /\ form.files[p.name].buffer = p.value
                ELSE /\ p.name \in DOMAIN form.fields
                     /\ form.fields[p.name] = p.value

\* C3: the result of getWorkerConfig is the layered merge: for every key the
\* language table's value if it defines the key, else the mode table's, else
\* the base default; an unknown mode or language adds nothing, the result
\* is never empty, and handwriting with rus carries the Russian whitelist.
C3_LayeredMerge ==
    pc = "postProcessText" =>
        LET allKeys ==
                (DOMAIN baseConfig)
                \cup UNION {DOMAIN modeConfigs[m] : m \in DOMAIN modeConfigs}
                \cup UNION {DOMAIN languageConfigs[l] :
                              l \in DOMAIN languageConfigs}
            inLanguage(k) == /\ language \in {LAV, RUS}
                             /\ k \in DOMAIN languageConfigs[language]
            inMode(k) == /\ mode \in {FAST, ADVANCED, HANDWRITING}
                         /\ k \in DOMAIN modeConfigs[mode]
        IN
        /\ DOMAIN workerConfig # {}
        /\ DOMAIN workerConfig \subseteq allKeys
        /\ \A k \in allKeys :
             IF inLanguage(k)
             THEN /\ k \in DOMAIN workerConfig
                  /\ workerConfig[k] = languageConfigs[language][k]
             ELSE IF inMode(k)
             THEN /\ k \in DOMAIN workerConfig
                  /\ workerConfig[k] = modeConfigs[mode][k]
             ELSE IF k \in DOMAIN baseConfig
             THEN /\ k \in DOMAIN workerConfig
                  /\ workerConfig[k] = baseConfig[k]
             ELSE k \notin DOMAIN workerConfig
        /\ (mode = HANDWRITING /\ language = RUS) =>
             /\ workerConfig.tessedit_char_whitelist = RUSSIAN_WHITELIST
             /\ workerConfig.tessedit_char_whitelist # HANDWRITING_WHITELIST

\* C3 witness: getWorkerConfig has run for handwriting and rus, where the
\* mode layer and the language layer both define the whitelist.
C3_Witness ==
    /\ pc = "postProcessText"
    /\ mode = HANDWRITING
    /\ language = RUS
    /\ workerConfig.tessedit_char_whitelist = RUSSIAN_WHITELIST
    /\ workerConfig.textord_min_linesize = "2.0"

\* C4 as claimed: a second pass of postProcessText changes nothing, for every
\* language and every text.
C4_Idempotent ==
    Len(processed) = 2 => processed[2] = processed[1]

\* C4 amended: a second pass of postProcessText changes nothing when the
\* language is not lav, and for lav when the text holds neither l-cedilla
\* nor n-cedilla.
C4_IdempotentAmended ==
    (/\ Len(processed) = 2
     /\ \/ language # LAV
        \/ \A i \in 1..Len(text) : text[i] \notin {L_CEDILLA, N_CEDILLA}) =>
        processed[2] = processed[1]

\* C4 witness: two passes have run on a text the first pass rewrote.
C4_Witness ==
    /\ Len(processed) = 2
    /\ language = LAV
    /\ text = <<"r", "n", "l">>
    /\ processed[1] = <<"m", "I">>
    /\ processed[2] = processed[1]

\* C5: a request whose content-type lacks the boundary is answered with a
\* client error (4xx), not with the server error of an engine failure.
C5_MissingBoundaryIsClientError ==
    (pc = "done" /\ promise = Rejected(NO_BOUNDARY_FOUND)) =>
        /\ Len(responses) = 1
        /\ responses[1].status \in 400..499

C7_WorkerReleased ==
    /\ terminateCalls <= 1
    /\ worker = "none" => terminateCalls = 0
    /\ (worker = "created" /\ pc \in {"terminate", "done"}) =>
           terminateCalls = 1
    /\ (\/ method # "POST"
        \/ promise.state = "rejected"
        \/ /\ promise.state = "resolved"
           /\ IMAGE \notin DOMAIN promise.value[1].files) =>
           /\ worker = "none"
           /\ pc \in {"start", "parseFormData", "done"}

\* C7 witness: the handler is done after a step of the inner try failed, and
\* the worker it created has been terminated once.
C7_Witness ==
    /\ pc = "done"
    /\ worker = "created"
    /\ thrown
    /\ processed = << >>
    /\ terminateCalls = 1

\* C8: every "cl" of the raw text is collapsed to "d": a raw text that holds
\* "cl" yields a result that holds "d".
C8_ClCollapsed ==
    (Len(processed) >= 1 /\ Includes(text, <<"c", "l">>)) =>
        Includes(processed[1], <<"d">>)

====
